---------------------------- MODULE Spec2Model ----------------------------
(***************************************************************************)
(* A model of data_extraction_tool.js: the column mapper, the field        *)
(* normalizers, the table decoders and the /upload request handler.        *)
(*                                                                         *)
(* A JavaScript string is a sequence of one-character strings.  A          *)
(* JavaScript value is a tagged record (null, undefined, string, number).  *)
(* A JavaScript object or Map is a sequence of <<key, value>> pairs in     *)
(* insertion order, keys being strings.                                    *)
(***************************************************************************)
EXTENDS Integers, Sequences, FiniteSets, TLC

-----------------------------------------------------------------------------
(* Characters and strings *)

LowerLetters == <<"a","b","c","d","e","f","g","h","i","j","k","l","m","n","o","p","q","r","s","t","u","v","w","x","y","z">>
UpperLetters == <<"A","B","C","D","E","F","G","H","I","J","K","L","M","N","O","P","Q","R","S","T","U","V","W","X","Y","Z">>
Digits == <<"0","1","2","3","4","5","6","7","8","9">>

Range(s) == {s[i] : i \in DOMAIN s}

IndexOf(s, c) == IF c \in Range(s) THEN CHOOSE i \in DOMAIN s : s[i] = c ELSE 0

IsLower(c) == c \in Range(LowerLetters)
IsUpper(c) == c \in Range(UpperLetters)
IsLetter(c) == IsLower(c) \/ IsUpper(c)
IsDigit(c) == c \in Range(Digits)
\* the characters the regular expression class \s and String.trim take for
\* whitespace, among those the inputs use
IsSpace(c) == c \in {" ", "\t", "\n"}

CharToUpper(c) == IF IsLower(c) THEN UpperLetters[IndexOf(LowerLetters, c)] ELSE c
CharToLower(c) == IF IsUpper(c) THEN LowerLetters[IndexOf(UpperLetters, c)] ELSE c

toUpperCase(s) == [i \in DOMAIN s |-> CharToUpper(s[i])]
toLowerCase(s) == [i \in DOMAIN s |-> CharToLower(s[i])]

RECURSIVE TrimStart(_)
TrimStart(s) == IF s # <<>> /\ IsSpace(Head(s)) THEN TrimStart(Tail(s)) ELSE s

RECURSIVE TrimEnd(_)
TrimEnd(s) ==
    IF s # <<>> /\ IsSpace(s[Len(s)]) THEN TrimEnd(SubSeq(s, 1, Len(s) - 1)) ELSE s

trim(s) == TrimEnd(TrimStart(s))

IsPrefix(p, s) == Len(p) <= Len(s) /\ SubSeq(s, 1, Len(p)) = p
IsSuffix(p, s) == Len(p) <= Len(s) /\ SubSeq(s, Len(s) - Len(p) + 1, Len(s)) = p

\* the first place from `from` on where sep occurs in s, 0 when there is none
IndexFrom(s, sep, from) ==
    LET At(i) == SubSeq(s, i, i + Len(sep) - 1) = sep
        places == {i \in from..(Len(s) - Len(sep) + 1) : At(i)}
    IN  IF places = {} THEN 0 ELSE CHOOSE i \in places : \A j \in places : i <= j

\* s.split(sep): the pieces between every two occurrences of sep, empty
\* pieces included
RECURSIVE SplitFrom(_, _, _)
SplitFrom(s, sep, from) ==
    LET i == IndexFrom(s, sep, from)
    IN  IF i = 0 THEN <<SubSeq(s, from, Len(s))>>
        ELSE <<SubSeq(s, from, i - 1)>> \o SplitFrom(s, sep, i + Len(sep))

split(s, sep) == SplitFrom(s, sep, 1)

includes(s, sub) == Len(split(s, sub)) > 1

RECURSIVE join(_, _)
join(parts, sep) ==
    IF parts = <<>> THEN <<>>
    ELSE IF Len(parts) = 1 THEN parts[1]
    ELSE parts[1] \o sep \o join(Tail(parts), sep)

-----------------------------------------------------------------------------
(* Values and objects *)

NULL == [t |-> "null"]
UNDEF == [t |-> "undefined"]
Str(s) == [t |-> "string", s |-> s]
Num(n) == [t |-> "number", n |-> n]

IsNullish(v) == v.t \in {"null", "undefined"}

\* the value as a condition: if (v), v || w
Truthy(v) ==
    CASE v.t = "string" -> v.s # <<>>
      [] v.t = "number" -> v.n # 0
      [] OTHER -> FALSE

RECURSIVE NatToString(_)
NatToString(n) ==
    IF n < 10 THEN <<Digits[n + 1]>>
    ELSE Append(NatToString(n \div 10), Digits[(n % 10) + 1])

\* String(v) and the ${v} of a template literal
String(v) ==
    CASE v.t = "string" -> v.s
      [] v.t = "number" -> NatToString(v.n)
      [] v.t = "null" -> <<"n","u","l","l">>
      [] OTHER -> <<"u","n","d","e","f","i","n","e","d">>

ObjKeys(o) == [i \in DOMAIN o |-> o[i][1]]
ObjValues(o) == [i \in DOMAIN o |-> o[i][2]]
ObjHas(o, k) == \E i \in DOMAIN o : o[i][1] = k
\* o[k]: undefined when o has no key k
ObjGet(o, k) == IF ObjHas(o, k) THEN o[CHOOSE i \in DOMAIN o : o[i][1] = k][2] ELSE UNDEF
\* o[k] = v and Map.set(k, v): a key already there keeps its place
ObjSet(o, k, v) ==
    IF ObjHas(o, k) THEN [i \in DOMAIN o |-> IF o[i][1] = k THEN <<k, v>> ELSE o[i]]
    ELSE Append(o, <<k, v>>)

-----------------------------------------------------------------------------
(* Configuration *)

DATE == <<"D","A","T","E">>
FULL_NAME == <<"F","U","L","L"," ","N","A","M","E">>
CONTACT == <<"C","O","N","T","A","C","T">>
ADDRESS == <<"A","D","D","R","E","S","S">>

TARGET_COLUMNS == <<DATE, FULL_NAME, CONTACT, ADDRESS>>

\* Object.entries(COLUMN_MAPPINGS): the targets in the order of the literal,
\* each with its synonyms
COLUMN_MAPPINGS ==
    << <<DATE, << <<"d","a","t","e">>, <<"d","o","b">>, <<"t","i","m","e">>,
                  <<"c","r","e","a","t","e","d","_","a","t">>,
                  <<"j","o","i","n","e","d">>, <<"d","a","y">> >> >>,
       <<FULL_NAME, << <<"n","a","m","e">>, <<"f","u","l","l","n","a","m","e">>,
                       <<"c","l","i","e","n","t">>,
                       <<"c","u","s","t","o","m","e","r">>,
                       <<"f","i","r","s","t"," ","n","a","m","e">>,
                       <<"l","a","s","t"," ","n","a","m","e">>,
                       <<"u","s","e","r">> >> >>,
       <<CONTACT, << <<"p","h","o","n","e">>, <<"m","o","b","i","l","e">>,
                     <<"c","e","l","l">>, <<"t","e","l">>,
                     <<"c","o","n","t","a","c","t"," ","n","u","m","b","e","r">>,
                     <<"n","u","m","b","e","r">> >> >>,
       <<ADDRESS, << <<"a","d","d","r","e","s","s">>,
                     <<"l","o","c","a","t","i","o","n">>,
                     <<"r","e","s","i","d","e","n","c","e">>,
                     <<"c","i","t","y">>, <<"s","t","r","e","e","t">> >> >> >>

-----------------------------------------------------------------------------
(* aiMapColumn *)

\* The fuzzy search library is not part of the program.  What it answers for
\* a header is a parameter of the model: found[i] is the list of the scores
\* (in hundredths, 0 the perfect match) of the results of
\* new Fuse(synonyms of target i, {threshold: 0.2}).search(header), the best
\* first; the library returns no result whose score is over the threshold.
FuseThreshold == 20

ScoreThreshold == 80

\* loop 1: the first target one of whose synonyms is the header
RECURSIVE DirectCheck(_, _)
DirectCheck(header, i) ==
    IF i > Len(COLUMN_MAPPINGS) THEN NULL
    ELSE IF header \in Range(COLUMN_MAPPINGS[i][2]) THEN Str(COLUMN_MAPPINGS[i][1])
    ELSE DirectCheck(header, i + 1)

\* a target as good as bestMatch replaces it too
BetterMatch_OrEqual(score, highestScore) ==
    score > ScoreThreshold /\ score >= highestScore

\* the condition under which a target replaces bestMatch
BetterMatch(score, highestScore) ==
    score > ScoreThreshold /\ score > highestScore

\* loop 2, from target i on
RECURSIVE FuzzyMatching(_, _, _, _)
FuzzyMatching(found, i, bestMatch, highestScore) ==
    IF i > Len(COLUMN_MAPPINGS) THEN bestMatch
    ELSE IF Len(found[i]) > 0 /\ BetterMatch(100 - found[i][1], highestScore)
         THEN FuzzyMatching(found, i + 1, Str(COLUMN_MAPPINGS[i][1]), 100 - found[i][1])
    ELSE FuzzyMatching(found, i + 1, bestMatch, highestScore)

aiMapColumn(header, found) ==
    LET h == trim(toLowerCase(header))
        direct == DirectCheck(h, 1)
    IN  IF direct # NULL THEN direct ELSE FuzzyMatching(found, 1, NULL, 0)

-----------------------------------------------------------------------------
(* cleanDate, cleanName, cleanPhone *)

MsPerDay == 24 * 60 * 60 * 1000

IsLeap(y) == (y % 4 = 0 /\ y % 100 # 0) \/ y % 400 = 0

DaysInMonth(y, m) ==
    IF m = 2 THEN (IF IsLeap(y) THEN 29 ELSE 28)
    ELSE IF m \in {4, 6, 9, 11} THEN 30 ELSE 31

\* the day number (0 = 1970-01-01) of a calendar date, and back
DaysFromCivil(y, m, d) ==
    LET yy == IF m <= 2 THEN y - 1 ELSE y
        era == yy \div 400
        yoe == yy - era * 400
        mp == IF m > 2 THEN m - 3 ELSE m + 9
        doy == (153 * mp + 2) \div 5 + d - 1
        doe == yoe * 365 + yoe \div 4 - yoe \div 100 + doy
    IN  era * 146097 + doe - 719468

CivilFromDays(z0) ==
    LET z == z0 + 719468
        era == z \div 146097
        doe == z - era * 146097
        yoe == (doe - doe \div 1460 + doe \div 36524 - doe \div 146096) \div 365
        doy == doe - (365 * yoe + yoe \div 4 - yoe \div 100)
        mp == (5 * doy + 2) \div 153
        d == doy - (153 * mp + 2) \div 5 + 1
        m == IF mp < 10 THEN mp + 3 ELSE mp - 9
        y == yoe + era * 400 + (IF m <= 2 THEN 1 ELSE 0)
    IN  <<y, m, d>>

RECURSIVE DigitsToNat(_)
DigitsToNat(s) ==
    IF s = <<>> THEN 0
    ELSE 10 * DigitsToNat(SubSeq(s, 1, Len(s) - 1)) + (IndexOf(Digits, s[Len(s)]) - 1)

RECURSIVE PadStart(_, _)
PadStart(s, n) == IF Len(s) >= n THEN s ELSE PadStart(<<"0">> \o s, n)

NaN == [nan |-> TRUE]
Time(day, ms) == [nan |-> FALSE, day |-> day, ms |-> ms]

\* the date-only form YYYY-MM-DD of the date-time string format
IsIsoDateForm(s) ==
    /\ Len(s) = 10
    /\ s[5] = "-" /\ s[8] = "-"
    /\ \A i \in {1, 2, 3, 4, 6, 7, 9, 10} : IsDigit(s[i])

\* Date.parse: a date-only form is UTC midnight of that date.  Every other
\* string goes to the engine's own fallback parser, which is modelled only
\* for the strings without a digit, which it rejects.
DateParse(s) ==
    IF IsIsoDateForm(s)
    THEN LET y == DigitsToNat(SubSeq(s, 1, 4))
             m == DigitsToNat(SubSeq(s, 6, 7))
             d == DigitsToNat(SubSeq(s, 9, 10))
         IN  IF m \in 1..12 /\ d \in 1..DaysInMonth(y, m)
             THEN Time(DaysFromCivil(y, m, d), 0) ELSE NaN
    ELSE NaN

\* new Date(val): null is the number 0, undefined is not a number, a number
\* is a time in milliseconds, a string is parsed
NewDate(val) ==
    CASE val.t = "null" -> Time(0, 0)
      [] val.t = "undefined" -> NaN
      [] val.t = "number" -> Time(val.n \div MsPerDay, val.n % MsPerDay)
      [] OTHER -> DateParse(val.s)

\* date.toISOString().split('T')[0]
IsoDatePart(date) ==
    LET c == CivilFromDays(date.day)
    IN  PadStart(NatToString(c[1]), 4) \o <<"-">> \o PadStart(NatToString(c[2]), 2)
            \o <<"-">> \o PadStart(NatToString(c[3]), 2)

cleanDate(val) ==
    LET date == NewDate(val)
    IN  IF date.nan THEN NULL ELSE Str(IsoDatePart(date))

\* w.charAt(0).toUpperCase() + w.slice(1).toLowerCase()
TitleCase(w) ==
    IF w = <<>> THEN <<>>
    ELSE <<CharToUpper(w[1])>> \o toLowerCase(SubSeq(w, 2, Len(w)))

cleanName(val) ==
    IF val.t # "string" THEN NULL
    ELSE LET KeepChar(c) == IsLetter(c) \/ IsSpace(c)
             clean == trim(SelectSeq(val.s, KeepChar))
             words == split(clean, <<" ">>)
         IN  IF clean = <<>> THEN NULL
             ELSE Str(join([i \in DOMAIN words |-> TitleCase(words[i])], <<" ">>))

MinDigits == 5

cleanPhone(val) ==
    IF val.t \in {"null", "undefined"} THEN NULL
    ELSE LET digits == SelectSeq(String(val), IsDigit)
         IN  IF Len(digits) > MinDigits THEN Str(digits) ELSE NULL

\* row.ADDRESS || null
cleanAddress(val) == IF Truthy(val) THEN val ELSE NULL

-----------------------------------------------------------------------------
(* parseCSV, parseExcel, extractTextFromPdf *)

\* headers.forEach((h, i) => obj[h] = values[i] || null), from header i on
RECURSIVE CsvRow(_, _, _, _)
CsvRow(headers, values, i, obj) ==
    IF i > Len(headers) THEN obj
    ELSE CsvRow(headers, values, i + 1,
                ObjSet(obj, headers[i],
                       IF i <= Len(values) /\ values[i] # <<>>
                       THEN Str(values[i]) ELSE NULL))

parseCSV(csvString) ==
    LET lines == split(trim(csvString), <<"\n">>)
        Cells(line) == LET c == split(line, <<",">>) IN [i \in DOMAIN c |-> trim(c[i])]
        headers == Cells(lines[1])
        body == Tail(lines)
    IN  [i \in DOMAIN body |-> CsvRow(headers, Cells(body[i]), 1, <<>>)]

\* The spreadsheet library is not part of the program: a workbook is the rows
\* sheet_to_json gives for its first sheet (a row has no key for an empty
\* cell), or is one that XLSX.read throws on.
parseExcel(workbook) == workbook.rows

\* The labelled lines of the text of a PDF, in the order the loop tests them:
\* the marker, the key it sets, and whether the value ends at a "|"
PdfMarkers ==
    << <<<<"D","a","t","e",":">>, DATE, TRUE>>,
       <<<<"N","a","m","e",":">>, FULL_NAME, TRUE>>,
       <<<<"P","h","o","n","e",":">>, CONTACT, TRUE>>,
       <<<<"A","d","d","r","e","s","s",":">>, ADDRESS, FALSE>> >>

RECURSIVE PdfLine(_, _, _)
PdfLine(line, k, currentRecord) ==
    IF k > Len(PdfMarkers) THEN currentRecord
    ELSE IF includes(line, PdfMarkers[k][1])
         THEN LET rest == split(line, PdfMarkers[k][1])[2]
                  val == IF PdfMarkers[k][3] THEN split(rest, <<"|">>)[1] ELSE rest
              IN  PdfLine(line, k + 1,
                          ObjSet(currentRecord, PdfMarkers[k][2], Str(trim(val))))
    ELSE PdfLine(line, k + 1, currentRecord)

PdfFlushAt == 3

RECURSIVE PdfLines(_, _, _)
PdfLines(lines, records, currentRecord) ==
    IF lines = <<>> THEN records
    ELSE LET cur == PdfLine(Head(lines), 1, currentRecord)
         IN  IF Len(cur) >= PdfFlushAt
             THEN PdfLines(Tail(lines), Append(records, cur), <<>>)
             ELSE PdfLines(Tail(lines), records, cur)

\* what the promise resolves to when pdfParse gives the text
extractTextFromPdf(text) == PdfLines(split(text, <<"\n">>), <<>>, <<>>)

-----------------------------------------------------------------------------
(* The /upload handler: its synchronous parts *)

NoResults == << <<>>, <<>>, <<>>, <<>> >>

\* what the fuzzy search answers for a header, under the answers fz
Found(fz, header) ==
    LET h == trim(toLowerCase(header))
    IN  IF h \in DOMAIN fz THEN fz[h] ELSE NoResults

\* for (const col of Object.keys(df[0] || {})), from key i on
RECURSIVE RenamedCols(_, _, _, _)
RenamedCols(cols, fz, i, renamedCols) ==
    IF i > Len(cols) THEN renamedCols
    ELSE LET mapped == aiMapColumn(cols[i], Found(fz, cols[i]))
         IN  RenamedCols(cols, fz, i + 1,
                         IF Truthy(mapped) THEN ObjSet(renamedCols, cols[i], mapped)
                         ELSE renamedCols)

\* the first column assigned to a target keeps it
RECURSIVE CopyCols_FirstWins(_, _, _, _)
CopyCols_FirstWins(row, renamedCols, i, newRow) ==
    IF i > Len(renamedCols) THEN newRow
    ELSE CopyCols_FirstWins(row, renamedCols, i + 1,
                            IF ObjHas(newRow, renamedCols[i][2].s) THEN newRow
                            ELSE ObjSet(newRow, renamedCols[i][2].s,
                                        ObjGet(row, renamedCols[i][1])))

\* for (const [oldCol, newCol] of Object.entries(renamedCols)), from entry i on
RECURSIVE CopyCols(_, _, _, _)
CopyCols(row, renamedCols, i, newRow) ==
    IF i > Len(renamedCols) THEN newRow
    ELSE CopyCols(row, renamedCols, i + 1,
                  ObjSet(newRow, renamedCols[i][2].s, ObjGet(row, renamedCols[i][1])))

\* TARGET_COLUMNS.forEach(col => { if (!(col in newRow)) newRow[col] = null })
RECURSIVE FillTargets(_, _)
FillTargets(newRow, i) ==
    IF i > Len(TARGET_COLUMNS) THEN newRow
    ELSE FillTargets(IF ObjHas(newRow, TARGET_COLUMNS[i]) THEN newRow
                     ELSE ObjSet(newRow, TARGET_COLUMNS[i], NULL), i + 1)

MapRow(row, renamedCols) == FillTargets(CopyCols(row, renamedCols, 1, <<>>), 1)

\* "Apply AI Column Mapping" on a decoded table
MapTable(df, fz) ==
    LET cols == IF df = <<>> THEN <<>> ELSE ObjKeys(df[1])
        renamedCols == RenamedCols(cols, fz, 1, <<>>)
    IN  [i \in DOMAIN df |-> MapRow(df[i], renamedCols)]

\* DATA_STATUS: Object.values(row).some(v => v === null)
DataStatus(row) ==
    IF \E i \in DOMAIN row : row[i][2] = NULL THEN "Missing Fields" ELSE "Valid"

CleanRow(row) ==
    [DATE |-> cleanDate(ObjGet(row, DATE)),
     FULL_NAME |-> cleanName(ObjGet(row, FULL_NAME)),
     CONTACT |-> cleanPhone(ObjGet(row, CONTACT)),
     ADDRESS |-> cleanAddress(ObjGet(row, ADDRESS)),
     DATA_STATUS |-> DataStatus(row)]

Cleaning(allData) == [i \in DOMAIN allData |-> CleanRow(allData[i])]

\* `${row["FULL NAME"]}-${row.CONTACT}-${row.DATE}`
DedupKey(row) ==
    String(row.FULL_NAME) \o <<"-">> \o String(row.CONTACT) \o <<"-">> \o String(row.DATE)

\* new Map(cleanedData.map(row => [key, row])), from row i on
RECURSIVE DedupMap(_, _, _)
DedupMap(cleanedData, i, map) ==
    IF i > Len(cleanedData) THEN map
    ELSE DedupMap(cleanedData, i + 1, ObjSet(map, DedupKey(cleanedData[i]), cleanedData[i]))

\* records are the same only if their ADDRESS is the same too
RemoveDuplicates_ByAddressToo(cleanedData) ==
    LET Same(i, k) ==
            /\ DedupKey(cleanedData[i]) = DedupKey(cleanedData[k])
            /\ cleanedData[i].ADDRESS = cleanedData[k].ADDRESS
        keep == {i \in DOMAIN cleanedData : \A k \in 1..(i - 1) : ~Same(i, k)}
        Nth(n) == CHOOSE i \in keep : Cardinality({j \in keep : j <= i}) = n
    IN  [n \in 1..Cardinality(keep) |-> cleanedData[Nth(n)]]

RemoveDuplicates(cleanedData) == ObjValues(DedupMap(cleanedData, 1, <<>>))

\* the cleaning, the removal of duplicates and res.json
SuccessResponse(data, processed) ==
    LET cleanedData == Cleaning(data)
        before == Len(cleanedData)
        deduped == RemoveDuplicates(cleanedData)
    IN  [status |-> 200, success |-> TRUE, filesProcessed |-> processed,
         recordCount |-> Len(deduped), dedupCount |-> before - Len(deduped),
         data |-> deduped]

\* the outer catch
ErrorResponse == [status |-> 500, success |-> FALSE]

-----------------------------------------------------------------------------
(* The uploads the requests are drawn from *)

\* FULL NAME,CONTACT,DATE,ADDRESS
HeaderTargets ==
    <<"F","U","L","L"," ","N","A","M","E",",","C","O","N","T","A","C","T",
      ",","D","A","T","E",",","A","D","D","R","E","S","S">>

\* Name, Mobile ,DOB,Address
HeaderSynonyms ==
    <<"N","a","m","e",","," ","M","o","b","i","l","e"," ",",","D","O","B",
      ",","A","d","d","r","e","s","s">>

\* client,phone,city,name
HeaderCollision ==
    <<"c","l","i","e","n","t",",","p","h","o","n","e",",","c","i","t","y",
      ",","n","a","m","e">>

\* john smith,555-12-34,2020-01-05,1 Main St
RowJohn ==
    <<"j","o","h","n"," ","s","m","i","t","h",",","5","5","5","-","1","2",
      "-","3","4",",","2","0","2","0","-","0","1","-","0","5",",","1"," ",
      "M","a","i","n"," ","S","t">>

\* JOHN SMITH,5551234,2020-01-05,
RowJohnAgain ==
    <<"J","O","H","N"," ","S","M","I","T","H",",","5","5","5","1","2","3",
      "4",",","2","0","2","0","-","0","1","-","0","5",",">>

\* ann lee,555-000-111,notadate,5 Elm Rd
RowAnn ==
    <<"a","n","n"," ","l","e","e",",","5","5","5","-","0","0","0","-","1",
      "1","1",",","n","o","t","a","d","a","t","e",",","5"," ","E","l","m",
      " ","R","d">>

\* Date: 2020-01-05 | Name: john smith | Phone: 555-12-34\nAddress: 1 Main St\nName: ann lee | Phone: 555-0000 | Address: 9 Elm Rd\n
PdfText ==
    <<"D","a","t","e",":"," ","2","0","2","0","-","0","1","-","0","5"," ",
      "|"," ","N","a","m","e",":"," ","j","o","h","n"," ","s","m","i","t",
      "h"," ","|"," ","P","h","o","n","e",":"," ","5","5","5","-","1","2",
      "-","3","4","\n","A","d","d","r","e","s","s",":"," ","1"," ","M","a",
      "i","n"," ","S","t","\n","N","a","m","e",":"," ","a","n","n"," ","l",
      "e","e"," ","|"," ","P","h","o","n","e",":"," ","5","5","5","-","0",
      "0","0","0"," ","|"," ","A","d","d","r","e","s","s",":"," ","9"," ",
      "E","l","m"," ","R","d","\n">>

\* upload.zip
NameZip ==
    <<"u","p","l","o","a","d",".","z","i","p">>

\* table.csv
NameCsv ==
    <<"t","a","b","l","e",".","c","s","v">>

\* book.xlsx
NameXlsx ==
    <<"b","o","o","k",".","x","l","s","x">>

\* TABLE.CSV
NameUpperCsv ==
    <<"T","A","B","L","E",".","C","S","V">>

\* scan.pdf
NamePdf ==
    <<"s","c","a","n",".","p","d","f">>

\* .csv
ExtCsv ==
    <<".","c","s","v">>

\* .CSV
ExtUpperCsv ==
    <<".","C","S","V">>

\* .xlsx
ExtXlsx ==
    <<".","x","l","s","x">>

\* .pdf
ExtPdf ==
    <<".","p","d","f">>

\* .txt
ExtTxt ==
    <<".","t","x","t">>

\* __MACOSX/
MacPrefix ==
    <<"_","_","M","A","C","O","S","X","/">>

\* Name
KeyName ==
    <<"N","a","m","e">>

\* Phone
KeyPhone ==
    <<"P","h","o","n","e">>

\* Joined
KeyJoined ==
    <<"J","o","i","n","e","d">>

\* City
KeyCity ==
    <<"C","i","t","y">>

\* Ann Lee
AnnLee ==
    <<"A","n","n"," ","L","e","e">>

\* bob ray
BobRay ==
    <<"b","o","b"," ","r","a","y">>

\* Paris
Paris ==
    <<"P","a","r","i","s">>

\* full name
fullname ==
    <<"f","u","l","l"," ","n","a","m","e">>

\* contact
contact ==
    <<"c","o","n","t","a","c","t">>

MaxRows == 2
MaxEntries == 2

HeaderLines == {HeaderTargets, HeaderSynonyms, HeaderCollision}
RowLines == {RowJohn, RowJohnAgain, RowAnn}

SeqsUpTo(S, n) == UNION {[1..k -> S] : k \in 0..n}

\* the text of a CSV file: the header line, the rows, a final line break
CsvText(header, rows) == join(<<header>> \o rows, <<"\n">>) \o <<"\n">>

\* the content of a file: the text of a CSV file or of a PDF, or the rows of
\* a workbook; ok is whether the library that decodes it accepts it
Content(text, rows, ok) == [text |-> text, rows |-> rows, ok |-> ok]

CsvContents(rowSeqs) ==
    {Content(CsvText(h, rows), <<>>, TRUE) : h \in HeaderLines, rows \in rowSeqs}

\* a sheet whose second row has a cell (City) the first row has none for,
\* and whose numeric cells are numbers
SheetRows ==
    << << <<KeyName, Str(AnnLee)>>, <<KeyPhone, Num(5550001)>>,
          <<KeyJoined, Num(MsPerDay)>> >>,
       << <<KeyName, Str(BobRay)>>, <<KeyPhone, Num(5550002)>>,
          <<KeyCity, Str(Paris)>> >> >>

WorkbookContents == {Content(<<>>, SheetRows, TRUE), Content(<<>>, <<>>, FALSE)}
PdfContents == {Content(PdfText, <<>>, TRUE), Content(<<>>, <<>>, FALSE)}

\* an entry of a bundle: its name is prefix, its position in the bundle and
\* suffix (the names of a bundle differ); readable is whether its bytes can
\* be read
Entry(prefix, suffix, readable, content) ==
    [prefix |-> prefix, suffix |-> suffix, readable |-> readable, content |-> content]

Filename(files, i) == files[i].prefix \o NatToString(i) \o files[i].suffix

ZipRowSeqs == {<<RowJohn>>, <<RowJohnAgain, RowAnn>>}

ZipEntries ==
    {Entry(<<>>, ExtCsv, TRUE, c) : c \in CsvContents(ZipRowSeqs)}
    \cup {Entry(<<>>, ExtXlsx, TRUE, c) : c \in WorkbookContents}
    \cup {Entry(<<>>, ExtPdf, TRUE, c) : c \in PdfContents}
    \cup {Entry(<<>>, ExtTxt, r, Content(RowJohn, <<>>, TRUE)) : r \in BOOLEAN}
    \cup {Entry(<<>>, ExtUpperCsv, FALSE, Content(CsvText(HeaderSynonyms, <<RowJohn>>), <<>>, TRUE)),
          Entry(<<>>, <<"/">>, TRUE, Content(<<>>, <<>>, TRUE)),
          Entry(MacPrefix, ExtCsv, TRUE, Content(CsvText(HeaderSynonyms, <<RowAnn>>), <<>>, TRUE))}

\* req.file: present is whether the request carries a file
File(originalname, buffer, zipOk, files) ==
    [present |-> TRUE, originalname |-> originalname, buffer |-> buffer,
     zipOk |-> zipOk, files |-> files]

NoFile ==
    [present |-> FALSE, originalname |-> <<>>, buffer |-> Content(<<>>, <<>>, TRUE),
     zipOk |-> TRUE, files |-> <<>>]

SingleFile(originalname, buffer) == File(originalname, buffer, TRUE, <<>>)
ZipFile(zipOk, files) == File(NameZip, Content(<<>>, <<>>, TRUE), zipOk, files)

Uploads ==
    {ZipFile(TRUE, files) : files \in SeqsUpTo(ZipEntries, MaxEntries)}
    \cup {ZipFile(FALSE, <<>>), NoFile}
    \cup {SingleFile(NameCsv, c) : c \in CsvContents(SeqsUpTo(RowLines, MaxRows))}
    \cup {SingleFile(NameXlsx, c) : c \in WorkbookContents}
    \cup {SingleFile(NameUpperCsv, Content(CsvText(HeaderTargets, <<RowJohn>>), <<>>, TRUE)),
          SingleFile(NamePdf, Content(PdfText, <<>>, TRUE))}

\* the uploads of the requests that run together
ConcUploads ==
    {ZipFile(TRUE, <<Entry(<<>>, ExtCsv, TRUE, Content(CsvText(HeaderSynonyms, <<RowJohn>>), <<>>, TRUE)),
                     Entry(<<>>, ExtPdf, TRUE, Content(PdfText, <<>>, TRUE))>>),
     ZipFile(TRUE, <<Entry(<<>>, ExtXlsx, TRUE, Content(<<>>, SheetRows, TRUE)),
                     Entry(<<>>, ExtCsv, TRUE, Content(CsvText(HeaderTargets, <<RowJohnAgain, RowAnn>>), <<>>, TRUE))>>),
     ZipFile(TRUE, <<Entry(<<>>, ExtPdf, TRUE, Content(<<>>, <<>>, FALSE)),
                     Entry(<<>>, ExtCsv, FALSE, Content(CsvText(HeaderSynonyms, <<RowAnn>>), <<>>, TRUE))>>),
     ZipFile(TRUE, <<>>),
     SingleFile(NameCsv, Content(CsvText(HeaderTargets, <<RowJohn, RowJohnAgain>>), <<>>, TRUE))}

\* The answers of the fuzzy search for the headers of these uploads that are
\* no synonym: none; each header close to its own target; one on the
\* threshold itself.
FuseAnswers ==
    {[h \in {fullname, contact} |-> NoResults],
     [h \in {fullname, contact} |->
        IF h = fullname THEN << <<>>, <<5>>, <<>>, <<>> >>
        ELSE << <<>>, <<>>, <<10>>, <<>> >>],
     [h \in {fullname, contact} |->
        IF h = fullname THEN << <<>>, <<15>>, <<>>, <<15>> >>
        ELSE << <<>>, <<>>, <<FuseThreshold>>, <<>> >>]}

-----------------------------------------------------------------------------
(* The state *)

Requests == {"r1", "r2"}

VARIABLES
    fuse,            \* the answers of the fuzzy search library
    pc,              \* where each request's handler is
    reqFile,         \* req.file of each request
    idx,             \* the entry of zip.files each request's loop is at
    allData,         \* let allData of each request
    filesProcessed,  \* let filesProcessed of each request
    response,        \* what each request answered
    call             \* the last call of a function on its own

vars == <<fuse, pc, reqFile, idx, allData, filesProcessed, response, call>>

NoResponse == [status |-> 0, success |-> FALSE]

Init ==
    /\ fuse \in FuseAnswers
    /\ pc = [r \in Requests |-> "idle"]
    /\ reqFile = [r \in Requests |-> NoFile]
    /\ idx = [r \in Requests |-> 0]
    /\ allData = [r \in Requests |-> <<>>]
    /\ filesProcessed = [r \in Requests |-> 0]
    /\ response = [r \in Requests |-> NoResponse]
    /\ call = [fn |-> "none"]

-----------------------------------------------------------------------------
(* The /upload handler: its steps between two awaits *)

\* if (filename.startsWith("__MACOSX") || filename.endsWith("/")) continue
Skipped(filename) ==
    IsPrefix(<<"_","_","M","A","C","O","S","X">>, filename) \/ IsSuffix(<<"/">>, filename)

\* filename.split('.').pop().toLowerCase()
FileExt(filename) ==
    LET parts == split(filename, <<".">>) IN toLowerCase(parts[Len(parts)])

\* the first entry from i on that the loop does not skip
RECURSIVE NextEntry(_, _)
NextEntry(files, i) ==
    IF i > Len(files) \/ ~Skipped(Filename(files, i)) THEN i
    ELSE NextEntry(files, i + 1)

ConcatData_Shared(all, r, df) == [q \in DOMAIN all |-> all[q] \o df]

\* allData = allData.concat(df), allData being the handler's own
ConcatData(all, r, df) == [all EXCEPT ![r] = @ \o df]

\* res.json(...) or res.status(500).json(...): the handler ends
Respond(r, res, all, processed) ==
    /\ response' = [response EXCEPT ![r] = res]
    /\ pc' = [pc EXCEPT ![r] = "done"]
    /\ allData' = all
    /\ filesProcessed' = processed
    /\ UNCHANGED idx

\* the loop from entry i on, up to its next await, or past its end the
\* cleaning and the response
Continue(r, i, all, processed) ==
    LET files == reqFile[r].files
        j == NextEntry(files, i)
    IN  IF j > Len(files)
        THEN Respond(r, SuccessResponse(all[r], processed[r]), all, processed)
        ELSE /\ pc' = [pc EXCEPT ![r] = "read"]
             /\ idx' = [idx EXCEPT ![r] = j]
             /\ allData' = all
             /\ filesProcessed' = processed
             /\ UNCHANGED response

\* the mapping of a decoded table, allData.concat(df), filesProcessed++
Process(r, df) ==
    Continue(r, idx[r] + 1, ConcatData(allData, r, MapTable(df, fuse)),
             [filesProcessed EXCEPT ![r] = @ + 1])

\* multer hands the request to the handler
Receive(r, U) ==
    /\ pc[r] = "idle"
    /\ \E u \in U : reqFile' = [reqFile EXCEPT ![r] = u]
    /\ pc' = [pc EXCEPT ![r] = "handler"]
    /\ UNCHANGED <<fuse, idx, allData, filesProcessed, response, call>>

\* the handler up to its first await
Handler(r) ==
    /\ pc[r] = "handler"
    /\ UNCHANGED <<fuse, reqFile, call>>
    /\ LET file == reqFile[r]
           none == [allData EXCEPT ![r] = <<>>]
           zero == [filesProcessed EXCEPT ![r] = 0]
       IN  IF ~file.present
           THEN Respond(r, ErrorResponse, none, zero)
           ELSE IF IsSuffix(<<".","z","i","p">>, file.originalname)
           THEN /\ pc' = [pc EXCEPT ![r] = "loadAsync"]
                /\ allData' = none
                /\ filesProcessed' = zero
                /\ UNCHANGED <<idx, response>>
           ELSE IF IsSuffix(<<".","c","s","v">>, file.originalname)
           THEN LET all == [allData EXCEPT ![r] = parseCSV(file.buffer.text)]
                    one == [filesProcessed EXCEPT ![r] = 1]
                IN  Respond(r, SuccessResponse(all[r], 1), all, one)
           ELSE IF IsSuffix(<<".","x","l","s","x">>, file.originalname)
           THEN IF file.buffer.ok
                THEN LET all == [allData EXCEPT ![r] = parseExcel(file.buffer)]
                         one == [filesProcessed EXCEPT ![r] = 1]
                     IN  Respond(r, SuccessResponse(all[r], 1), all, one)
                ELSE Respond(r, ErrorResponse, none, zero)
           ELSE Respond(r, SuccessResponse(<<>>, 0), none, zero)

\* JSZip.loadAsync settles
ZipLoaded(r) ==
    /\ pc[r] = "loadAsync"
    /\ UNCHANGED <<fuse, reqFile, call>>
    /\ IF reqFile[r].zipOk
       THEN Continue(r, 1, allData, filesProcessed)
       ELSE Respond(r, ErrorResponse, allData, filesProcessed)

\* file.async('arraybuffer') settles
EntryRead(r) ==
    /\ pc[r] = "read"
    /\ UNCHANGED <<fuse, reqFile, call>>
    /\ LET files == reqFile[r].files
           entry == files[idx[r]]
           fileExt == FileExt(Filename(files, idx[r]))
       IN  IF ~entry.readable
           THEN Respond(r, ErrorResponse, allData, filesProcessed)
           ELSE IF fileExt = <<"c","s","v">>
           THEN Process(r, parseCSV(entry.content.text))
           ELSE IF fileExt = <<"x","l","s","x">>
           THEN IF entry.content.ok
                THEN Process(r, parseExcel(entry.content))
                ELSE Continue(r, idx[r] + 1, allData, filesProcessed)
           ELSE IF fileExt = <<"p","d","f">>
           THEN /\ pc' = [pc EXCEPT ![r] = "pdf"]
                /\ UNCHANGED <<idx, allData, filesProcessed, response>>
           ELSE Continue(r, idx[r] + 1, allData, filesProcessed)

\* extractTextFromPdf settles
PdfParsed(r) ==
    /\ pc[r] = "pdf"
    /\ UNCHANGED <<fuse, reqFile, call>>
    /\ LET content == reqFile[r].files[idx[r]].content
       IN  IF content.ok
           THEN Process(r, extractTextFromPdf(content.text))
           ELSE Continue(r, idx[r] + 1, allData, filesProcessed)

Step(R, U) ==
    \E r \in R :
        \/ Receive(r, U)
        \/ Handler(r)
        \/ ZipLoaded(r)
        \/ EntryRead(r)
        \/ PdfParsed(r)

\* one request at a time, over all the uploads
Next == Step({"r1"}, Uploads)

Spec == Init /\ [][Next]_vars

\* two requests in flight together
NextConc == Step(Requests, ConcUploads)

SpecConc == Init /\ [][NextConc]_vars

-----------------------------------------------------------------------------
(* The handler run from its start to its response with nothing in between *)

\* the for loop over zip.files from entry i on
RECURSIVE ZipLoop(_, _, _, _, _)
ZipLoop(files, i, data, processed, fz) ==
    IF i > Len(files) THEN SuccessResponse(data, processed)
    ELSE IF Skipped(Filename(files, i)) THEN ZipLoop(files, i + 1, data, processed, fz)
    ELSE IF ~files[i].readable THEN ErrorResponse
    ELSE LET fileExt == FileExt(Filename(files, i))
             content == files[i].content
             Mapped(df) == ZipLoop(files, i + 1, data \o MapTable(df, fz), processed + 1, fz)
             Passed == ZipLoop(files, i + 1, data, processed, fz)
         IN  IF fileExt = <<"c","s","v">> THEN Mapped(parseCSV(content.text))
             ELSE IF fileExt = <<"x","l","s","x">>
             THEN (IF content.ok THEN Mapped(parseExcel(content)) ELSE Passed)
             ELSE IF fileExt = <<"p","d","f">>
             THEN (IF content.ok THEN Mapped(extractTextFromPdf(content.text)) ELSE Passed)
             ELSE Passed

UploadAlone(file, fz) ==
    IF ~file.present THEN ErrorResponse
    ELSE IF IsSuffix(<<".","z","i","p">>, file.originalname)
    THEN (IF file.zipOk THEN ZipLoop(file.files, 1, <<>>, 0, fz) ELSE ErrorResponse)
    ELSE IF IsSuffix(<<".","c","s","v">>, file.originalname)
    THEN SuccessResponse(parseCSV(file.buffer.text), 1)
    ELSE IF IsSuffix(<<".","x","l","s","x">>, file.originalname)
    THEN (IF file.buffer.ok THEN SuccessResponse(parseExcel(file.buffer), 1)
          ELSE ErrorResponse)
    ELSE SuccessResponse(<<>>, 0)

-----------------------------------------------------------------------------
(* The functions called on their own *)

MaxNameLen == 4
MaxCols == 3

NameChars == {"a", "B", " ", "\t", "1"}

NameInputs ==
    {Str(s) : s \in SeqsUpTo(NameChars, MaxNameLen)} \cup {NULL, UNDEF, Num(7)}

\* a raw value a row can hold: none, null, a date, text without a digit,
\* the empty text, numbers
RawInputs ==
    {UNDEF, NULL, Str(<<>>), Str(AnnLee), Num(0), Num(5550001),
     Str(<<"2","0","2","4","-","0","2","-","2","9">>),
     Str(<<"1","9","9","9","-","1","2","-","3","1">>)}

\* the answers of one search: no result, or results best first
FuseResults == {<<>>, <<0>>, <<10>>, <<19>>, <<FuseThreshold>>, <<10, FuseThreshold>>}

MapHeaders == {<<" ","D","O","B"," ">>, KeyPhone, KeyCity, fullname, contact, <<"q">>}

KeyPool == {KeyName, KeyPhone, <<"c","l","i","e","n","t">>, contact}

\* the lists of at most n different keys
KeyLists(n) ==
    {ks \in SeqsUpTo(KeyPool, n) : \A i, j \in DOMAIN ks : i # j => ks[i] # ks[j]}

\* row n of a table, with these keys: each cell is its key and its row
TableRow(keys, n) == [i \in DOMAIN keys |-> <<keys[i], Str(keys[i] \o NatToString(n))>>]

MapTables ==
    {<<TableRow(k, 1)>> : k \in KeyLists(MaxCols)}
    \cup {<<TableRow(k, 1), TableRow(l, 2)>> : k \in KeyLists(MaxCols), l \in KeyLists(MaxCols - 1)}

handlerVars == <<fuse, pc, reqFile, idx, allData, filesProcessed, response>>

\* one call at a time: the function, what it is given, what it returns
CallCleanName ==
    /\ call.fn = "none"
    /\ \E v \in NameInputs : call' = [fn |-> "cleanName", in |-> v, out |-> cleanName(v)]
    /\ UNCHANGED handlerVars

\* the four values the cleaning step computes from one raw value
CallNormalizers ==
    /\ call.fn = "none"
    /\ \E v \in RawInputs :
          call' = [fn |-> "normalizers", in |-> v,
                   out |-> [DATE |-> cleanDate(v), FULL_NAME |-> cleanName(v),
                            CONTACT |-> cleanPhone(v), ADDRESS |-> cleanAddress(v)]]
    /\ UNCHANGED handlerVars

CallAiMapColumn ==
    /\ call.fn = "none"
    /\ \E header \in MapHeaders, found \in [1..Len(COLUMN_MAPPINGS) -> FuseResults] :
          call' = [fn |-> "aiMapColumn", in |-> <<header, found>>,
                   out |-> aiMapColumn(header, found)]
    /\ UNCHANGED handlerVars

CallMapTable ==
    /\ call.fn = "none"
    /\ \E df \in MapTables : call' = [fn |-> "mapTable", in |-> df, out |-> MapTable(df, fuse)]
    /\ UNCHANGED handlerVars

Return ==
    /\ call.fn # "none"
    /\ call' = [fn |-> "none"]
    /\ UNCHANGED handlerVars

NextFn == CallCleanName \/ CallNormalizers \/ CallAiMapColumn \/ CallMapTable \/ Return

SpecFn == Init /\ [][NextFn]_vars

-----------------------------------------------------------------------------
(* The claims *)

Answered(r) == pc[r] = "done" /\ response[r].success

FinalValues(rec) == {rec.DATE, rec.FULL_NAME, rec.CONTACT, rec.ADDRESS}

IdentityKey(rec) == <<rec.FULL_NAME, rec.CONTACT, rec.DATE>>

IsBundle(file) == file.present /\ IsSuffix(<<".","z","i","p">>, file.originalname)

\* C1: in the data a request returns, a record is tagged 'Missing Fields'
\* exactly when one of its four final values DATE, FULL NAME, CONTACT,
\* ADDRESS is null.
C1_StatusIffNullFinalValue ==
    \A r \in Requests :
        Answered(r) =>
            \A i \in DOMAIN response[r].data :
                LET rec == response[r].data[i]
                IN  (rec.DATA_STATUS = "Missing Fields") <=> (NULL \in FinalValues(rec))

\* the records of a list that no earlier record of the list shares the key
\* of, in the order of the list
FirstSeen(records) ==
    LET keep == {i \in DOMAIN records :
                    \A k \in 1..(i - 1) : IdentityKey(records[k]) # IdentityKey(records[i])}
        Nth(n) == CHOOSE i \in keep : Cardinality({j \in keep : j <= i}) = n
    IN  [n \in 1..Cardinality(keep) |-> records[Nth(n)]]

\* C2: the data a request returns is the first-seen record of every
\* IdentityKey of the pooled cleaned records, each record itself (its ADDRESS
\* and its status), in the order of the pool.
C2_KeepsFirstSeenRecord ==
    \A r \in Requests :
        Answered(r) => response[r].data = FirstSeen(Cleaning(allData[r]))

\* the entries of a bundle that are decoded: not passed over by name, of a
\* format the handler decodes, readable, and accepted by their decoder
Decodable(files, i) ==
    /\ ~Skipped(Filename(files, i))
    /\ files[i].readable
    /\ \/ FileExt(Filename(files, i)) = <<"c","s","v">>
       \/ /\ FileExt(Filename(files, i)) \in {<<"x","l","s","x">>, <<"p","d","f">>}
          /\ files[i].content.ok

RowCount(files, i) ==
    LET fileExt == FileExt(Filename(files, i))
    IN  IF fileExt = <<"c","s","v">> THEN Len(parseCSV(files[i].content.text))
        ELSE IF fileExt = <<"x","l","s","x">> THEN Len(parseExcel(files[i].content))
        ELSE Len(extractTextFromPdf(files[i].content.text))

RECURSIVE SumRows(_, _)
SumRows(files, S) ==
    IF S = {} THEN 0
    ELSE LET i == CHOOSE i \in S : TRUE IN RowCount(files, i) + SumRows(files, S \ {i})

\* C3: a request for a bundle that could be opened ends in a success
\* response, whatever entry failed to be read, decoded or mapped: the entries
\* that failed count for nothing, and every other entry is counted in
\* filesProcessed and gives all its rows.
C3_EntryFailureIsIsolated ==
    \A r \in Requests :
        (pc[r] = "done" /\ IsBundle(reqFile[r]) /\ reqFile[r].zipOk) =>
            LET files == reqFile[r].files
                good == {i \in DOMAIN files : Decodable(files, i)}
            IN  /\ response[r].success
                /\ response[r].filesProcessed = Cardinality(good)
                /\ Len(allData[r]) = SumRows(files, good)

IsSingleTable(file) ==
    /\ file.present
    /\ \/ IsSuffix(<<".","c","s","v">>, file.originalname)
       \/ IsSuffix(<<".","x","l","s","x">>, file.originalname)

\* the bundle whose only entry is this single table
BundleOf(file) ==
    ZipFile(TRUE, <<Entry(<<>>,
                          IF IsSuffix(<<".","c","s","v">>, file.originalname) THEN ExtCsv
                          ELSE ExtXlsx,
                          TRUE, file.buffer)>>)

\* C4: a table uploaded on its own gives the records it gives as the only
\* entry of a bundle.
C4_SingleTableAsInBundle ==
    \A r \in Requests :
        (Answered(r) /\ IsSingleTable(reqFile[r])) =>
            response[r].data = UploadAlone(BundleOf(reqFile[r]), fuse).data

\* C5: no two records of the data a request returns have the same
\* IdentityKey, from whatever tables of the request they come, and dedupCount
\* is the number of pooled records less recordCount.
C5_GlobalDeduplication ==
    \A r \in Requests :
        Answered(r) =>
            LET data == response[r].data
            IN  /\ \A i, j \in DOMAIN data :
                      i # j => IdentityKey(data[i]) # IdentityKey(data[j])
                /\ response[r].recordCount = Len(data)
                /\ response[r].dedupCount = Len(allData[r]) - response[r].recordCount

\* two tables of one bundle each gave one record, of the same IdentityKey,
\* and one of the two was returned
C5_Witness ==
    /\ Answered("r1")
    /\ IsBundle(reqFile["r1"])
    /\ response["r1"].filesProcessed = 2
    /\ Len(allData["r1"]) = 2
    /\ response["r1"].recordCount = 1
    /\ response["r1"].dedupCount = 1
    /\ NULL \notin {response["r1"].data[1].FULL_NAME, response["r1"].data[1].CONTACT}

\* C6: each of the four normalizers gives null for a raw value that is null
\* and for one that is absent.
C6_NullAndAbsentGiveNull ==
    (call.fn = "normalizers" /\ IsNullish(call.in)) =>
        /\ call.out.DATE = NULL
        /\ call.out.FULL_NAME = NULL
        /\ call.out.CONTACT = NULL
        /\ call.out.ADDRESS = NULL

\* the best score, of 100, among the results of one search
BestScore(results) ==
    CHOOSE sc \in {100 - results[k] : k \in DOMAIN results} :
        \A k \in DOMAIN results : sc >= 100 - results[k]

\* what the tiers of the column mapper give for a header and the results of
\* the four searches
MapperTiers(header, found) ==
    LET h == trim(toLowerCase(header))
        owners == {i \in DOMAIN COLUMN_MAPPINGS : h \in Range(COLUMN_MAPPINGS[i][2])}
        qualifying == {i \in DOMAIN COLUMN_MAPPINGS :
                          found[i] # <<>> /\ BestScore(found[i]) > 80}
        highest == {i \in qualifying :
                       \A j \in qualifying : BestScore(found[i]) >= BestScore(found[j])}
        First(S) == CHOOSE i \in S : \A j \in S : i <= j
    IN  IF owners # {} THEN Str(TARGET_COLUMNS[First(owners)])
        ELSE IF qualifying = {} THEN NULL
        ELSE Str(TARGET_COLUMNS[First(highest)])

RECURSIVE Tokens(_, _)
Tokens(s, cur) ==
    IF s = <<>> THEN (IF cur = <<>> THEN <<>> ELSE <<cur>>)
    ELSE IF IsSpace(Head(s))
         THEN (IF cur = <<>> THEN <<>> ELSE <<cur>>) \o Tokens(Tail(s), <<>>)
    ELSE Tokens(Tail(s), Append(cur, Head(s)))

\* C8: for a text with a letter in it, cleanName gives the tokens between the
\* runs of whitespace of the text without its characters that are neither
\* letters nor whitespace, each with its first letter in upper case and the
\* others in lower case, one space between two tokens.
C8_NameTokensSingleSpaced ==
    (call.fn = "cleanName" /\ call.in.t = "string" /\ call.out # NULL) =>
        LET KeepChar(c) == IsLetter(c) \/ IsSpace(c)
            tokens == Tokens(SelectSeq(call.in.s, KeepChar), <<>>)
        IN  call.out = Str(join([i \in DOMAIN tokens |-> TitleCase(tokens[i])], <<" ">>))

\* the keys of the first row of a table that the column mapper assigns to a
\* target, by their place among the keys
AssignedTo(df, target, fz) ==
    {k \in DOMAIN df[1] : aiMapColumn(df[1][k][1], Found(fz, df[1][k][1])) = Str(target)}

\* C9: every mapped row has the four keys DATE, FULL NAME, CONTACT, ADDRESS
\* and no other; under each is the row's value for the last key of the table
\* assigned to it, and null when no key of the table is assigned to it.
C9_MappedRowHasFourKeys ==
    call.fn = "mapTable" =>
        /\ Len(call.out) = Len(call.in)
        /\ \A i \in DOMAIN call.out :
              /\ Len(call.out[i]) = Len(TARGET_COLUMNS)
              /\ Range(ObjKeys(call.out[i])) = Range(TARGET_COLUMNS)
              /\ \A t \in DOMAIN TARGET_COLUMNS :
                    LET assigned == AssignedTo(call.in, TARGET_COLUMNS[t], fuse)
                        last == CHOOSE k \in assigned : \A j \in assigned : j <= k
                    IN  ObjGet(call.out[i], TARGET_COLUMNS[t]) =
                            IF assigned = {} THEN NULL
                            ELSE ObjGet(call.in[i], call.in[1][last][1])

\* two keys of a table are assigned to FULL NAME and none to ADDRESS: the
\* first row holds the value of the later of the two, and null for ADDRESS
C9_Witness ==
    /\ call.fn = "mapTable"
    /\ Len(call.in) = 2
    /\ ObjKeys(call.in[1]) = <<KeyName, KeyPhone, <<"c","l","i","e","n","t">> >>
    /\ ObjGet(call.out[1], FULL_NAME) = Str(<<"c","l","i","e","n","t","1">>)
    /\ ObjGet(call.out[1], CONTACT) = Str(KeyPhone \o <<"1">>)
    /\ ObjGet(call.out[1], ADDRESS) = NULL
    /\ ObjGet(call.out[2], FULL_NAME) \in {UNDEF, Str(<<"c","l","i","e","n","t","2">>)}

\* C10: a request that has answered has answered what the handler answers
\* for its upload when it runs with no other request.
C10_RequestIsolation ==
    \A r \in Requests : pc[r] = "done" => response[r] = UploadAlone(reqFile[r], fuse)

\* one request has answered with the records of its bundle of two tables
\* while the other, with another upload, waits for a PDF with rows of an
\* earlier entry in its batch
C10_Witness ==
    /\ Answered("r1")
    /\ response["r1"].filesProcessed = 2
    /\ response["r1"].recordCount > 0
    /\ pc["r2"] = "pdf"
    /\ allData["r2"] # <<>>
    /\ reqFile["r2"] # reqFile["r1"]

=============================================================================
